---- MODULE Spec2Model ----
(***************************************************************************)
(* Realtime collaboration session layer of the Sowntra backend             *)
(* (src/src/websocket/collaboration.ts): Socket.IO handlers join-board,    *)
(* sync-state, board-update, awareness-update and disconnect, the two      *)
(* module-level maps boardConnections and boardDocs, the Yjs 'update'      *)
(* auto-save hook and the persisted yDocState column.                      *)
(*                                                                         *)
(* A Y.Doc is modelled by the set of update atoms it contains: applying an *)
(* update is set union, the 'update' event carries the atoms that were new *)
(* to the document and is not emitted when nothing was new.                *)
(* A join-board invocation is a task; its ClientConnection object and the  *)
(* Y.Doc it may construct are identified by the task's index.              *)
(* userName and color are carried verbatim by the code and are left out.   *)
(***************************************************************************)
EXTENDS Integers, Sequences, FiniteSets, TLC

\* ---------------------------------------------------------------- bounds
NumSockets == 2
MaxJoins == 2
MaxRoomJoins == 3
MaxAccessJoins == 2
MaxCursorJoins == 2
MaxEngineJoins == 2
NumUpdates == 1

Sockets == 1..NumSockets
TaskIds == 1..MaxJoins
RoomTaskIds == 1..MaxRoomJoins
AccessTaskIds == 1..MaxAccessJoins
CursorTaskIds == 1..MaxCursorJoins
EngineTaskIds == 1..MaxEngineJoins
Updates == 1..NumUpdates

\* ----------------------------------------------------- database contents
BoardIds == {"b1", "b2"}
NoBoard == ""
NoUser == "-"
NoEmail == "-"
NoConn == 0

\* console.error lines of the catch blocks
NoError == ""
VerifyError == "Error verifying board access"
CheckError == "Error checking board access"
LoadError == "Error loading board state"
SaveError == "Error saving board state"
\* an exception that leaves a handler without a catch block
UncaughtError == "Uncaught exception"

\* firebase uid -> database user id (prisma.user.findUnique)
DbUserOf(uid) == IF uid = "fa" THEN "ua" ELSE NoUser
\* a board row with its members relation: database user id -> role
BoardRow(owner, public, members) ==
    [ownerId |-> owner, isPublic |-> public, members |-> members]
NoMembers == <<>>
OneMember(u, role) == [x \in {u} |-> role]
\* the board table of the collaboration runs: b1 is public, b2 is private
SeedRows ==
    [b \in BoardIds |->
       IF b = "b1" THEN BoardRow("uo", TRUE, NoMembers)
       ELSE BoardRow("ua", FALSE, OneMember("ub", "editor"))]
\* the board tables of the access runs: b1 is missing, or is any row over
\* two owners, the public flag and the membership of user ua
AccessRows ==
    {<<>>} \cup
    {[b \in {"b1"} |-> BoardRow(o, p, m)] :
        o \in {"ua", "uo"}, p \in BOOLEAN,
        m \in {NoMembers, OneMember("ua", "viewer"), OneMember("ua", "editor")}}

\* join-board payloads: <<userId, userEmail>> is anonymous, a firebase uid
\* with a database user, a firebase uid without one, or an email alone
JoinIdentities ==
    {<<NoUser, NoEmail>>, <<"fa", NoEmail>>, <<"fx", NoEmail>>, <<NoUser, "e1">>}
BoardInputs == BoardIds \cup {NoBoard}

\* cursor-move payload fields as JavaScript values: a finite number, a
\* missing field, NaN, Infinity, null and a non-numeric string
CoordValues == {"7", "undefined", "NaN", "Infinity", "null", "abc"}
\* data.x === undefined
IsUndefined(v) == v = "undefined"
\* isNaN(v): Number(v) is NaN; Number(null) is 0, Number(Infinity) is Infinity
JsIsNaN(v) == v \in {"undefined", "NaN", "abc"}
\* payloads with at least one finite coordinate
CursorInputs == {p \in CoordValues \X CoordValues : p[1] = "7" \/ p[2] = "7"}
NoCursor == <<>>

\* bytes that are not an encoded Yjs update: Y.applyUpdate throws on them
\* before it changes the document
Malformed == -1
Rejects(U) == Malformed \in U

\* persisted snapshot present before the server starts
SeedState == {0}
NullSnapshot == [isNull |-> TRUE, bytes |-> {}]
Snapshot(S) == [isNull |-> FALSE, bytes |-> S]

\* ------------------------------------------------- board controller data
\* req.user?.dbUserId of a request, NoUser when the request carries none
Callers == {NoUser, "ua", "ub", "uo"}
\* req.params.token: two issued tokens, an unknown one and a missing one
NoToken == ""
Tokens == {"t1", "t2", "tx", NoToken}
\* req.params.id of getBoard: the two boards and an unknown id
BoardParams == BoardIds \cup {"bx"}
\* a BoardInvitation row; pastExpiry is new Date() > expiresAt
Invitation(b, role, status, pastExpiry) ==
    [boardId |-> b, role |-> role, status |-> status, pastExpiry |-> pastExpiry]
\* two pending invitations: t1 to the private board, t2 to the public one
SeedInvitations ==
    [t \in {"t1", "t2"} |->
       IF t = "t1" THEN Invitation("b2", "editor", "pending", FALSE)
       ELSE Invitation("b1", "viewer", "pending", FALSE)]
NoResponse == [handler |-> "", caller |-> NoUser, param |-> "", status |-> 0,
               data |-> ""]
Response(handler, caller, param, status, data) ==
    [handler |-> handler, caller |-> caller, param |-> param,
     status |-> status, data |-> data]

VARIABLES
    sockState,        \* socket -> "new" | "open" | "closed"
    sockRooms,        \* socket -> Socket.IO rooms the socket is in
    sockRole,         \* socket -> (socket as any).userRole, "" when unset
    clientConnection, \* socket -> the closure variable clientConnection
    tasks,            \* join-board invocations, in order of arrival
    boardConnections, \* Map boardId -> Set<ClientConnection> (insertion order)
    boardDocs,        \* Map boardId -> Y.Doc
    yDocs,            \* Y.Doc -> content
    boardRows,        \* the board table: id -> row (without yDocState)
    yDocState,        \* board row column yDocState
    writes,           \* prisma.board.update calls in flight
    released,         \* board -> content of the Y.Doc last deleted from boardDocs
    writeFailed,      \* whether a prisma.board.update has thrown
    out,              \* messages delivered by the last handler step
    logged,           \* console.error line of the last step, "" when none
    cursor,           \* ClientConnection -> its cursor field, where set
    invitations,      \* the BoardInvitation table: token -> row
    response          \* the last HTTP response of the board controller

vars == <<sockState, sockRooms, sockRole, clientConnection, tasks,
          boardConnections, boardDocs, yDocs, yDocState, writes,
          released, writeFailed, out, boardRows, logged, cursor,
          invitations, response>>

\* prisma.board.findUnique: the row, its owner, flag and member relation
BoardFound(b) == b \in DOMAIN boardRows
BoardIsPublic(b) == boardRows[b].isPublic
BoardOwner(b) == boardRows[b].ownerId
MemberRole(b, u) == IF u \in DOMAIN boardRows[b].members
                    THEN boardRows[b].members[u] ELSE "none"

\* ------------------------------------------------------------- helpers
Min(S) == CHOOSE x \in S : \A y \in S : x <= y

RECURSIVE Fanout(_, _)
\* one copy of message m for every socket of S
Fanout(S, m) ==
    IF S = {} THEN <<>>
    ELSE LET s == Min(S) IN <<[m EXCEPT !.to = s]>> \o Fanout(S \ {s}, m)

\* socket.emit: a closed socket's packets are discarded
Emit(s, m) == IF sockState[s] = "open" THEN <<[m EXCEPT !.to = s]>> ELSE <<>>

\* sockets in Socket.IO room b, given the room membership sr
RoomSockets(sr, b) == {s \in Sockets : b \in sr[s]}

SeqToSet(q) == {q[i] : i \in DOMAIN q}

RECURSIVE Concat(_)
Concat(qs) == IF qs = <<>> THEN <<>> ELSE Head(qs) \o Concat(Tail(qs))

\* clientConnection.userId: dbUserId || userId
ConnUserId(tk) == IF tk.dbUserId # NoUser THEN tk.dbUserId ELSE tk.userId

\* an outgoing message; room is the Socket.IO room it was addressed to, ""
\* for socket.emit
Msg(type, room, body) == [type |-> type, to |-> 0, room |-> room, body |-> body]

\* Map.set / Map.delete on a function whose domain is the key set
MapSet(m, k, v) == [x \in (DOMAIN m) \cup {k} |-> IF x = k THEN v ELSE m[x]]
MapDelete(m, k) == [x \in (DOMAIN m) \ {k} |-> m[x]]

\* ------------------------------------------------------------- Init
InitState ==
    /\ sockState = [s \in Sockets |-> "new"]
    /\ sockRooms = [s \in Sockets |-> {}]
    /\ sockRole = [s \in Sockets |-> ""]
    /\ clientConnection = [s \in Sockets |-> NoConn]
    /\ tasks = <<>>
    /\ boardConnections = <<>>
    /\ boardDocs = <<>>
    /\ yDocs = <<>>
    /\ yDocState = [b \in BoardIds |-> IF b = "b1" THEN Snapshot(SeedState)
                                         ELSE NullSnapshot]
    /\ writes = {}
    /\ released = <<>>
    /\ writeFailed = FALSE
    /\ out = <<>>
    /\ logged = NoError
    /\ cursor = <<>>
    /\ invitations = SeedInvitations
    /\ response = NoResponse

Init == InitState /\ boardRows = SeedRows

\* the engine runs start with b1's column null, well-formed or malformed
InitEngine ==
    /\ sockState = [s \in Sockets |-> "new"]
    /\ sockRooms = [s \in Sockets |-> {}]
    /\ sockRole = [s \in Sockets |-> ""]
    /\ clientConnection = [s \in Sockets |-> NoConn]
    /\ tasks = <<>>
    /\ boardConnections = <<>>
    /\ boardDocs = <<>>
    /\ yDocs = <<>>
    /\ \E col \in {NullSnapshot, Snapshot(SeedState), Snapshot({Malformed})} :
          yDocState = [b \in BoardIds |-> IF b = "b1" THEN col ELSE NullSnapshot]
    /\ writes = {}
    /\ released = <<>>
    /\ writeFailed = FALSE
    /\ out = <<>>
    /\ logged = NoError
    /\ cursor = <<>>
    /\ boardRows = SeedRows
    /\ invitations = SeedInvitations
    /\ response = NoResponse

\* the access runs start from every board table of AccessRows
InitAccess == InitState /\ boardRows \in AccessRows

\* ------------------------------------------------- io.on('connection')
\* socket ids are opaque: sockets connect in index order
Connect(s) ==
    /\ UNCHANGED <<boardRows, cursor, invitations, response>>
    /\ logged' = NoError
    /\ sockState[s] = "new"
    /\ \A r \in Sockets : r < s => sockState[r] # "new"
    /\ sockState' = [sockState EXCEPT ![s] = "open"]
    /\ out' = <<>>
    /\ UNCHANGED <<sockRooms, sockRole, clientConnection, tasks,
                   boardConnections, boardDocs, yDocs, yDocState, writes,
                   released, writeFailed>>

\* --------------------------------------------------------- join-board
\* the access decision of lines 79-98 and 108, given the looked-up dbUserId
HasAccess(b, uid, dbu) ==
    IF ~BoardFound(b) THEN FALSE
    ELSE IF uid # NoUser
    THEN IF dbu # NoUser /\ BoardOwner(b) = dbu THEN TRUE
         ELSE IF dbu # NoUser
              THEN MemberRole(b, dbu) # "none" \/ BoardIsPublic(b)
              ELSE BoardIsPublic(b)
    ELSE BoardIsPublic(b)

UserRoleOwnerOrViewer(b, uid, dbu) ==
    IF BoardFound(b) /\ uid # NoUser /\ dbu # NoUser /\ BoardOwner(b) = dbu
    THEN "owner" ELSE "viewer"

UserRole(b, uid, dbu) ==
    IF ~BoardFound(b) THEN "viewer"
    ELSE IF uid # NoUser /\ dbu # NoUser /\ BoardOwner(b) = dbu THEN "owner"
    ELSE IF uid # NoUser /\ dbu # NoUser /\ MemberRole(b, dbu) # "none"
         THEN MemberRole(b, dbu)
         ELSE "viewer"

EvictsByIdOnly(tk, c) ==
    tk.dbUserId # NoUser /\ ConnUserId(tasks[c]) = tk.dbUserId
\* the eviction test of lines 183-184 applied to an existing connection c
Evicts(tk, c) ==
    \/ tk.dbUserId # NoUser /\ ConnUserId(tasks[c]) = tk.dbUserId
    \/ tk.userEmail # NoEmail /\ tasks[c].userEmail = tk.userEmail

\* conn.cursor, undefined until a cursor-move has set it
StoredCursor(c) == IF c \in DOMAIN cursor THEN cursor[c] ELSE NoCursor

\* the cursor fields of the ClientConnection objects that are not garbage
LiveCursors(cur, tk) ==
    [c \in {x \in DOMAIN cur : tk[x].socket # 0} |-> cur[c]]

\* the roster projection of lines 205-214 and 343-352
RosterEntry(c, roles) ==
    [userId |-> ConnUserId(tasks[c]), userEmail |-> tasks[c].userEmail,
     socketId |-> tasks[c].socket, cursor |-> StoredCursor(c),
     role |-> IF roles[tasks[c].socket] = "" THEN "viewer"
              ELSE roles[tasks[c].socket]]

Roster(conns, roles) == [i \in DOMAIN conns |-> RosterEntry(conns[i], roles)]

UserLeft(tk) ==
    Msg("user-left", tk.boardId, [userId |-> ConnUserId(tk), userEmail |-> tk.userEmail,
                      socketId |-> tk.socket])

\* a returned handler's locals and an unreferenced ClientConnection are
\* garbage: their slot is blanked
DeadTask ==
    [pc |-> "done", socket |-> 0, boardId |-> NoBoard, userId |-> NoUser,
     userEmail |-> NoEmail, dbUserId |-> NoUser, userRole |-> "viewer"]

Referenced(t, cc, bc) ==
    \/ \E s \in Sockets : cc[s] = t
    \/ \E b \in DOMAIN bc : \E i \in DOMAIN bc[b] : bc[b][i] = t

Collect(tk, cc, bc) ==
    [t \in DOMAIN tk |->
        IF tk[t].pc = "done" /\ ~Referenced(t, cc, bc) THEN DeadTask ELSE tk[t]]

\* a Y.Doc is reachable from boardDocs or from a suspended join's local
LiveDocs(yd, bd, tk) ==
    [h \in {x \in DOMAIN yd : \/ \E b \in DOMAIN bd : bd[b] = x
                               \/ tk[x].pc = "load"} |-> yd[h]]

JoinRosterBeforeInsert(kept, after) == kept
\* line 205: the roster of a join is read from the set after the eviction
\* and the insertion (lines 177-196)
JoinRosterConns(kept, after) == after

\* lines 159-230: create the connection, evict, add, reply.  t is the task,
\* tk its record, sr the Socket.IO rooms after socket.join, doc the content
\* of the Y.Doc held in the local variable yDoc.
Admit(t, tk, sr, doc) ==
    LET b == tk.boardId
        s == tk.socket
        roles == [sockRole EXCEPT ![s] = tk.userRole]
        existing == IF b \in DOMAIN boardConnections
                    THEN boardConnections[b] ELSE <<>>
        kept == SelectSeq(existing, LAMBDA c : ~Evicts(tk, c))
        gone == SelectSeq(existing, LAMBDA c : Evicts(tk, c))
        after == Append(kept, t)
        listed == JoinRosterConns(kept, after)
        lefts == Concat([i \in DOMAIN gone |->
                    Fanout(RoomSockets(sr, b) \ {tasks[gone[i]].socket},
                           UserLeft(tasks[gone[i]]))])
    IN  /\ clientConnection' = [clientConnection EXCEPT ![s] = t]
        /\ tasks' = Collect([tasks EXCEPT ![t] = [tk EXCEPT !.pc = "done"]],
                            clientConnection',
                            MapSet(boardConnections, b, after))
        /\ sockRole' = roles
        /\ boardConnections' = MapSet(boardConnections, b, after)
        /\ out' = lefts
                  \o Emit(s, Msg("sync-board", "", doc))
                  \o Emit(s, Msg("active-users", "",
                        [i \in DOMAIN listed |->
                           IF listed[i] = t
                           THEN [userId |-> ConnUserId(tk),
                                 userEmail |-> tk.userEmail,
                                 socketId |-> s, cursor |-> NoCursor,
                                 role |-> tk.userRole]
                           ELSE RosterEntry(listed[i], roles)]))
                  \o Fanout(RoomSockets(sr, b) \ {s},
                        Msg("user-joined", b,
                            [userId |-> ConnUserId(tk),
                             userEmail |-> tk.userEmail,
                             socketId |-> s, role |-> tk.userRole]))
                  \o Emit(s, Msg("user-role", "", tk.userRole))

NewTask(s, b, uid, em, pc) ==
    [pc |-> pc, socket |-> s, boardId |-> b, userId |-> uid,
     userEmail |-> em, dbUserId |-> NoUser, userRole |-> "viewer"]

\* lines 44-61/105: the handler up to its first await
JoinBoard(s, b, uid, em) ==
    /\ UNCHANGED <<boardRows, cursor, invitations, response>>
    /\ logged' = NoError
    /\ sockState[s] = "open"
    /\ IF b = NoBoard
       THEN /\ tasks' = Append(tasks, DeadTask)
            /\ out' = Emit(s, Msg("error", "", "Board ID required"))
       ELSE /\ tasks' = Append(tasks, NewTask(s, b, uid, em,
                                  IF uid # NoUser THEN "user" ELSE "board"))
            /\ out' = <<>>
    /\ UNCHANGED <<sockState, sockRooms, sockRole, clientConnection,
                   boardConnections, boardDocs, yDocs, yDocState, writes,
                   released, writeFailed>>

DeniedAfterJoin(t) ==
    /\ tasks' = [tasks EXCEPT ![t] = DeadTask]
    /\ out' = Emit(tasks[t].socket, Msg("error", "", "Access denied to this board"))
    /\ sockRooms' = [sockRooms EXCEPT ![tasks[t].socket] = @ \cup {tasks[t].boardId}]
    /\ UNCHANGED <<sockState, sockRole, clientConnection,
                   boardConnections, boardDocs, yDocs, yDocState, writes,
                   released, writeFailed>>

DeniedSilently(t) ==
    /\ tasks' = [tasks EXCEPT ![t] = DeadTask]
    /\ out' = <<>>
    /\ UNCHANGED <<sockState, sockRooms, sockRole, clientConnection,
                   boardConnections, boardDocs, yDocs, yDocState, writes,
                   released, writeFailed>>

\* lines 114-117: the error reply of a join without access
Denied(t) ==
    /\ tasks' = [tasks EXCEPT ![t] = DeadTask]
    /\ out' = Emit(tasks[t].socket, Msg("error", "", "Access denied to this board"))
    /\ UNCHANGED <<sockState, sockRooms, sockRole, clientConnection,
                   boardConnections, boardDocs, yDocs, yDocState, writes,
                   released, writeFailed>>

JoinUserLookupIgnoresError(t, ok) ==
    /\ UNCHANGED <<boardRows, cursor, invitations, response>>
    /\ logged' = IF ok THEN NoError ELSE VerifyError
    /\ t \in DOMAIN tasks
    /\ tasks[t].pc = "user"
    /\ tasks' = [tasks EXCEPT ![t].pc = "board",
                              ![t].dbUserId = IF ok THEN DbUserOf(tasks[t].userId)
                                              ELSE NoUser]
    /\ out' = <<>>
    /\ UNCHANGED <<sockState, sockRooms, sockRole, clientConnection,
                   boardConnections, boardDocs, yDocs, yDocState,
                   writes, released, writeFailed>>

\* lines 61-67: prisma.user.findUnique returns (ok) or throws
JoinUserLookup(t, ok) ==
    /\ UNCHANGED <<boardRows, cursor, invitations, response>>
    /\ logged' = IF ok THEN NoError ELSE VerifyError
    /\ t \in DOMAIN tasks
    /\ tasks[t].pc = "user"
    /\ IF ok
       THEN /\ tasks' = [tasks EXCEPT ![t].pc = "board",
                                      ![t].dbUserId = DbUserOf(tasks[t].userId)]
            /\ out' = <<>>
            /\ UNCHANGED <<sockState, sockRooms, sockRole, clientConnection,
                           boardConnections, boardDocs, yDocs, yDocState,
                           writes, released, writeFailed>>
       ELSE Denied(t)

\* lines 69-130 (and 105-130): prisma.board.findUnique of the access check
\* returns or throws; on success the handler runs on to the snapshot load,
\* or to its end when the board already has a Y.Doc
JoinBoardLookup(t, ok) ==
    /\ UNCHANGED <<boardRows, invitations, response>>
    /\ t \in DOMAIN tasks
    /\ tasks[t].pc = "board"
    /\ logged' = IF ok THEN NoError
                 ELSE IF tasks[t].userId # NoUser THEN VerifyError ELSE CheckError
    /\ LET tk0 == tasks[t]
           b == tk0.boardId
           s == tk0.socket
           tk == [tk0 EXCEPT !.userRole = UserRole(b, tk0.userId, tk0.dbUserId)]
           sr == IF sockState[s] = "open"
                 THEN [sockRooms EXCEPT ![s] = @ \cup {b}] ELSE sockRooms
       IN IF ~(ok /\ HasAccess(b, tk0.userId, tk0.dbUserId))
          THEN Denied(t)
          ELSE /\ sockRooms' = sr
               /\ IF b \in DOMAIN boardDocs
                  THEN /\ Admit(t, tk, sr, yDocs[boardDocs[b]])
                       /\ UNCHANGED <<boardDocs, yDocs>>
                  ELSE /\ tasks' = [tasks EXCEPT ![t] = [tk EXCEPT !.pc = "load"]]
                       /\ yDocs' = MapSet(yDocs, t, {})
                       /\ out' = <<>>
                       /\ UNCHANGED <<sockRole, clientConnection,
                                      boardConnections, boardDocs>>
               /\ UNCHANGED <<sockState, yDocState, writes, released,
                              writeFailed>>
    /\ cursor' = LiveCursors(cursor, tasks')

LoadedDocKeepsBytes(ok, col) == IF ok /\ ~col.isNull THEN col.bytes ELSE {}
\* lines 126-139: the content of the new Y.Doc after the guarded load; a
\* read that throws and bytes that Y.applyUpdate rejects leave it empty
LoadedDoc(ok, col) ==
    IF ok /\ ~col.isNull /\ ~Rejects(col.bytes) THEN col.bytes ELSE {}

\* lines 130-230: the snapshot read returns or throws, the Y.Doc is stored
\* and the 'update' hook registered, then the handler runs to its end
JoinLoad(t, ok) ==
    /\ UNCHANGED <<boardRows, invitations, response>>
    /\ t \in DOMAIN tasks
    /\ tasks[t].pc = "load"
    /\ logged' = IF ok /\ ~Rejects(yDocState[tasks[t].boardId].bytes)
                 THEN NoError ELSE LoadError
    /\ LET tk == tasks[t]
           b == tk.boardId
           doc == LoadedDoc(ok, yDocState[b])
       IN /\ boardDocs' = MapSet(boardDocs, b, t)
          /\ Admit(t, tk, sockRooms, doc)
          /\ yDocs' = LiveDocs(MapSet(yDocs, t, doc), boardDocs', tasks')
    /\ UNCHANGED <<sockState, sockRooms, yDocState, writes, released,
                   writeFailed>>
    /\ cursor' = LiveCursors(cursor, tasks')

\* ------------------------------------------------- Y.applyUpdate + hook
\* lines 143-156: the 'update' event carries what the transaction added and
\* the hook starts prisma.board.update with exactly those bytes
HookWrite(b, new) == [boardId |-> b, yDocState |-> new]

ApplyUpdateToggles(b, U) ==
    LET h == boardDocs[b]
        new == U \ yDocs[h]
    IN /\ yDocs' = [yDocs EXCEPT ![h] = (@ \ U) \cup (U \ @)]
       /\ writes' = IF new = {} THEN writes
                    ELSE writes \cup {HookWrite(b, new)}
\* Y.applyUpdate(yDoc, U) on the Y.Doc of board b; the event fires only on a
\* change, and the hook registered for that Y.Doc closes over b
ApplyUpdate(b, U) ==
    LET h == boardDocs[b]
        new == U \ yDocs[h]
    IN /\ yDocs' = [yDocs EXCEPT ![h] = @ \cup U]
       /\ writes' = IF new = {} THEN writes
                    ELSE writes \cup {HookWrite(b, new)}

UpdateInputs == (SUBSET Updates) \ {{}}

\* the guards of lines 243-246, 257-260
HasDoc(s) ==
    /\ clientConnection[s] # NoConn
    /\ tasks[clientConnection[s]].boardId \in DOMAIN boardDocs

\* an exception thrown by a handler that has no catch block is an uncaught
\* exception of the Node.js process, which has no 'uncaughtException'
\* listener: the process exits, every socket closes and the module's maps,
\* documents and suspended handlers are gone; a prisma.board.update already
\* handed to the database may still take effect
ProcessExits ==
    /\ logged' = UncaughtError
    /\ sockState' = [s \in Sockets |-> "closed"]
    /\ sockRooms' = [s \in Sockets |-> {}]
    /\ sockRole' = [s \in Sockets |-> ""]
    /\ clientConnection' = [s \in Sockets |-> NoConn]
    /\ tasks' = [t \in DOMAIN tasks |-> DeadTask]
    /\ boardConnections' = <<>>
    /\ boardDocs' = <<>>
    /\ yDocs' = <<>>
    /\ cursor' = <<>>
    /\ released' = [b \in (DOMAIN released) \cup (DOMAIN boardDocs) |->
                      IF b \in DOMAIN boardDocs THEN yDocs[boardDocs[b]]
                      ELSE released[b]]
    /\ \E W \in SUBSET writes : writes' = W
    /\ out' = <<>>
    /\ UNCHANGED <<yDocState, writeFailed>>

\* lines 242-251
SyncState(s, U) ==
    /\ UNCHANGED <<boardRows, invitations, response>>
    /\ sockState[s] = "open"
    /\ IF HasDoc(s) /\ Rejects(U)
       THEN ProcessExits
       ELSE /\ IF HasDoc(s)
               THEN ApplyUpdate(tasks[clientConnection[s]].boardId, U)
               ELSE UNCHANGED <<yDocs, writes>>
            /\ out' = <<>>
            /\ logged' = NoError
            /\ UNCHANGED <<sockState, sockRooms, sockRole, clientConnection,
                           tasks, boardConnections, boardDocs, yDocState,
                           released, writeFailed, cursor>>

BoardUpdateAwaitsWrites(s, U) ==
    /\ UNCHANGED <<boardRows, invitations, response>>
    /\ sockState[s] = "open"
    /\ writes = {}
    /\ IF HasDoc(s) /\ Rejects(U)
       THEN ProcessExits
       ELSE /\ IF HasDoc(s)
               THEN LET b == tasks[clientConnection[s]].boardId
                    IN /\ ApplyUpdate(b, U)
                       /\ out' = Fanout(RoomSockets(sockRooms, b),
                                        Msg("board-update", b, U))
               ELSE /\ out' = <<>>
                    /\ UNCHANGED <<yDocs, writes>>
            /\ logged' = NoError
            /\ UNCHANGED <<sockState, sockRooms, sockRole, clientConnection,
                           tasks, boardConnections, boardDocs, yDocState,
                           released, writeFailed, cursor>>

BoardUpdateEditorsOnly(s, U) ==
    /\ UNCHANGED <<boardRows, invitations, response>>
    /\ sockState[s] = "open"
    /\ IF HasDoc(s) /\ Rejects(U) /\ sockRole[s] # "viewer"
       THEN ProcessExits
       ELSE /\ IF HasDoc(s) /\ sockRole[s] # "viewer"
               THEN LET b == tasks[clientConnection[s]].boardId
                    IN /\ ApplyUpdate(b, U)
                       /\ out' = Fanout(RoomSockets(sockRooms, b),
                                        Msg("board-update", b, U))
               ELSE /\ out' = <<>>
                    /\ UNCHANGED <<yDocs, writes>>
            /\ logged' = NoError
            /\ UNCHANGED <<sockState, sockRooms, sockRole, clientConnection,
                           tasks, boardConnections, boardDocs, yDocState,
                           released, writeFailed, cursor>>

\* lines 256-272: Y.applyUpdate (line 264) is not inside a try block
BoardUpdate(s, U) ==
    /\ UNCHANGED <<boardRows, invitations, response>>
    /\ sockState[s] = "open"
    /\ IF HasDoc(s) /\ Rejects(U)
       THEN ProcessExits
       ELSE /\ IF HasDoc(s)
               THEN LET b == tasks[clientConnection[s]].boardId
                    IN /\ ApplyUpdate(b, U)
                       /\ out' = Fanout(RoomSockets(sockRooms, b),
                                        Msg("board-update", b, U))
               ELSE /\ out' = <<>>
                    /\ UNCHANGED <<yDocs, writes>>
            /\ logged' = NoError
            /\ UNCHANGED <<sockState, sockRooms, sockRole, clientConnection,
                           tasks, boardConnections, boardDocs, yDocState,
                           released, writeFailed, cursor>>

AwarenessUpdateByRooms(s) ==
    /\ UNCHANGED <<boardRows, cursor, invitations, response>>
    /\ logged' = NoError
    /\ sockState[s] = "open"
    /\ out' = IF sockRooms[s] = {} THEN <<>>
              ELSE LET b == CHOOSE r \in sockRooms[s] : TRUE
                   IN Fanout(RoomSockets(sockRooms, b) \ {s},
                             Msg("awareness-update", b,
                                 [userId |-> NoUser, socketId |-> s]))
    /\ UNCHANGED <<sockState, sockRooms, sockRole, clientConnection, tasks,
                   boardConnections, boardDocs, yDocs, yDocState, writes,
                   released, writeFailed>>
\* lines 302-313; the relayed state is opaque
AwarenessUpdate(s) ==
    /\ UNCHANGED <<boardRows, cursor, invitations, response>>
    /\ logged' = NoError
    /\ sockState[s] = "open"
    /\ out' = IF clientConnection[s] = NoConn THEN <<>>
              ELSE Fanout(RoomSockets(sockRooms,
                              tasks[clientConnection[s]].boardId) \ {s},
                          Msg("awareness-update",
                              tasks[clientConnection[s]].boardId,
                              [userId |-> ConnUserId(tasks[clientConnection[s]]),
                               socketId |-> s]))
    /\ UNCHANGED <<sockState, sockRooms, sockRole, clientConnection, tasks,
                   boardConnections, boardDocs, yDocs, yDocState, writes,
                   released, writeFailed>>

\* lines 277-297
CursorMove(s, x, y) ==
    /\ UNCHANGED <<boardRows, invitations, response>>
    /\ logged' = NoError
    /\ sockState[s] = "open"
    /\ IF \/ clientConnection[s] = NoConn
          \/ IsUndefined(x) \/ IsUndefined(y) \/ JsIsNaN(x) \/ JsIsNaN(y)
       THEN /\ out' = <<>>
            /\ UNCHANGED cursor
       ELSE LET c == clientConnection[s]
                b == tasks[c].boardId
            IN /\ cursor' = MapSet(cursor, c, <<x, y>>)
               /\ out' = Fanout(RoomSockets(sockRooms, b) \ {s},
                                Msg("cursor-update", b,
                                    [userId |-> ConnUserId(tasks[c]),
                                     userEmail |-> tasks[c].userEmail,
                                     cursor |-> <<x, y>>, socketId |-> s]))
    /\ UNCHANGED <<sockState, sockRooms, sockRole, clientConnection, tasks,
                   boardConnections, boardDocs, yDocs, yDocState, writes,
                   released, writeFailed>>

\* ---------------------------------------------------------- disconnect
\* lines 324-332: remove the connection, tear the room down when empty
RemoveConnection(conns, c) == SelectSeq(conns, LAMBDA x : x # c)

RoomClosesNever(rest) == FALSE
\* line 328: connections.size === 0
RoomCloses(rest) == rest = <<>>

DocsAfterCloseKept(bd, b) == bd
\* line 330: boardDocs.delete(boardId)
DocsAfterClose(bd, b) == MapDelete(bd, b)

\* lines 318-361; Socket.IO has taken the socket out of every room before
\* the handler runs
Disconnect(s) ==
    /\ UNCHANGED <<boardRows, invitations, response>>
    /\ logged' = NoError
    /\ sockState[s] = "open"
    /\ sockState' = [sockState EXCEPT ![s] = "closed"]
    /\ sockRooms' = [sockRooms EXCEPT ![s] = {}]
    /\ IF clientConnection[s] = NoConn
       THEN /\ out' = <<>>
            /\ UNCHANGED <<clientConnection, boardConnections, boardDocs,
                           released, tasks, yDocs>>
       ELSE LET c == clientConnection[s]
                b == tasks[c].boardId
                rest == IF b \in DOMAIN boardConnections
                        THEN RemoveConnection(boardConnections[b], c)
                        ELSE <<>>
                closes == b \in DOMAIN boardConnections /\ RoomCloses(rest)
            IN /\ boardConnections' =
                      IF b \notin DOMAIN boardConnections THEN boardConnections
                      ELSE IF closes THEN MapDelete(boardConnections, b)
                      ELSE [boardConnections EXCEPT ![b] = rest]
               /\ boardDocs' = IF closes THEN DocsAfterClose(boardDocs, b)
                               ELSE boardDocs
               /\ released' = IF closes /\ b \in DOMAIN boardDocs
                              THEN MapSet(released, b, yDocs[boardDocs[b]])
                              ELSE released
               /\ out' = Fanout(RoomSockets(sockRooms', b) \ {s},
                                UserLeft(tasks[c]))
                         \o Fanout(RoomSockets(sockRooms', b),
                                   Msg("active-users", b, Roster(rest, sockRole)))
               /\ clientConnection' = [clientConnection EXCEPT ![s] = NoConn]
               /\ tasks' = Collect(tasks, clientConnection', boardConnections')
               /\ yDocs' = LiveDocs(yDocs, boardDocs', tasks)
    /\ UNCHANGED <<sockRole, yDocState, writes, writeFailed>>
    /\ cursor' = LiveCursors(cursor, tasks')

\* --------------------------------------------------- prisma.board.update
\* lines 146-152: an update in flight overwrites the yDocState column
WriteDone(w) ==
    /\ UNCHANGED <<boardRows, cursor, invitations, response>>
    /\ logged' = NoError
    /\ w \in writes
    /\ writes' = writes \ {w}
    /\ yDocState' = [yDocState EXCEPT ![w.boardId] = Snapshot(w.yDocState)]
    /\ out' = <<>>
    /\ UNCHANGED <<sockState, sockRooms, sockRole, clientConnection, tasks,
                   boardConnections, boardDocs, yDocs, released, writeFailed>>

WriteFailNotifies(w) ==
    /\ UNCHANGED <<boardRows, cursor, invitations, response>>
    /\ logged' = SaveError
    /\ w \in writes
    /\ writes' = writes \ {w}
    /\ writeFailed' = TRUE
    /\ out' = Fanout(RoomSockets(sockRooms, w.boardId),
                     Msg("error", w.boardId, "Error saving board state"))
    /\ UNCHANGED <<sockState, sockRooms, sockRole, clientConnection, tasks,
                   boardConnections, boardDocs, yDocs, yDocState, released>>

\* lines 153-155: the update throws, the error is logged
WriteFail(w) ==
    /\ UNCHANGED <<boardRows, cursor, invitations, response>>
    /\ logged' = SaveError
    /\ w \in writes
    /\ writes' = writes \ {w}
    /\ writeFailed' = TRUE
    /\ out' = <<>>
    /\ UNCHANGED <<sockState, sockRooms, sockRole, clientConnection, tasks,
                   boardConnections, boardDocs, yDocs, yDocState, released>>

\* the model admits at most n join-board messages in a run
BoundedJoin(n, s, b, id) ==
    /\ Len(tasks) < n
    /\ JoinBoard(s, b, id[1], id[2])

Next ==
    \/ \E s \in Sockets : Connect(s)
    \/ \E s \in Sockets, b \in BoardInputs, id \in JoinIdentities :
          BoundedJoin(MaxJoins, s, b, id)
    \/ \E t \in TaskIds, ok \in BOOLEAN : JoinUserLookup(t, ok)
    \/ \E t \in TaskIds, ok \in BOOLEAN : JoinBoardLookup(t, ok)
    \/ \E t \in TaskIds, ok \in BOOLEAN : JoinLoad(t, ok)
    \/ \E s \in Sockets, U \in UpdateInputs : SyncState(s, U)
    \/ \E s \in Sockets, U \in UpdateInputs : BoardUpdate(s, U)
    \/ \E s \in Sockets : AwarenessUpdate(s)
    \/ \E s \in Sockets : Disconnect(s)
    \/ \E w \in writes : WriteDone(w)
    \/ \E w \in writes : WriteFail(w)

Spec == Init /\ [][Next]_vars

\* every awaited lookup of a join returns or fails: the continuation of an
\* await is eventually run
LookupsReturn ==
    \A t \in TaskIds :
       /\ WF_vars(\E ok \in BOOLEAN : JoinUserLookup(t, ok))
       /\ WF_vars(\E ok \in BOOLEAN : JoinBoardLookup(t, ok))
       /\ WF_vars(\E ok \in BOOLEAN : JoinLoad(t, ok))

SpecFair == Spec /\ LookupsReturn

\* three joins to the public board, presence only
NextRoom ==
    \/ \E s \in Sockets : Connect(s)
    \/ \E s \in Sockets, id \in JoinIdentities :
          BoundedJoin(MaxRoomJoins, s, "b1", id)
    \/ \E t \in RoomTaskIds, ok \in BOOLEAN : JoinUserLookup(t, ok)
    \/ \E t \in RoomTaskIds, ok \in BOOLEAN : JoinBoardLookup(t, ok)
    \/ \E t \in RoomTaskIds, ok \in BOOLEAN : JoinLoad(t, ok)
    \/ \E s \in Sockets : Disconnect(s)

SpecRoom == Init /\ [][NextRoom]_vars

\* joins to b1 under every board table, every lookup returning
NextAccess ==
    \/ \E s \in Sockets : Connect(s)
    \/ \E s \in Sockets, id \in JoinIdentities :
          BoundedJoin(MaxAccessJoins, s, "b1", id)
    \/ \E t \in AccessTaskIds : JoinUserLookup(t, TRUE)
    \/ \E t \in AccessTaskIds : JoinBoardLookup(t, TRUE)
    \/ \E t \in AccessTaskIds, ok \in BOOLEAN : JoinLoad(t, ok)
    \/ \E s \in Sockets : Disconnect(s)

SpecAccess == InitAccess /\ [][NextAccess]_vars

\* presence traffic of the connections of b1
NextCursor ==
    \/ \E s \in Sockets : Connect(s)
    \/ \E s \in Sockets, id \in JoinIdentities :
          BoundedJoin(MaxCursorJoins, s, "b1", id)
    \/ \E t \in CursorTaskIds, ok \in BOOLEAN : JoinUserLookup(t, ok)
    \/ \E t \in CursorTaskIds, ok \in BOOLEAN : JoinBoardLookup(t, ok)
    \/ \E t \in CursorTaskIds, ok \in BOOLEAN : JoinLoad(t, ok)
    \/ \E s \in Sockets, p \in CursorInputs : CursorMove(s, p[1], p[2])
    \/ \E s \in Sockets : AwarenessUpdate(s)
    \/ \E s \in Sockets : Disconnect(s)

SpecCursor == Init /\ [][NextCursor]_vars

\* updates and snapshots that the document engine accepts or rejects
EngineInputs == UpdateInputs \cup {{Malformed}}

\* editing traffic of b1 with well-formed and malformed bytes
NextEngine ==
    \/ \E s \in Sockets : Connect(s)
    \/ \E s \in Sockets, id \in JoinIdentities :
          BoundedJoin(MaxEngineJoins, s, "b1", id)
    \/ \E t \in EngineTaskIds, ok \in BOOLEAN : JoinUserLookup(t, ok)
    \/ \E t \in EngineTaskIds, ok \in BOOLEAN : JoinBoardLookup(t, ok)
    \/ \E t \in EngineTaskIds, ok \in BOOLEAN : JoinLoad(t, ok)
    \/ \E s \in Sockets, U \in EngineInputs : SyncState(s, U)
    \/ \E s \in Sockets, U \in EngineInputs : BoardUpdate(s, U)
    \/ \E s \in Sockets : Disconnect(s)
    \/ \E w \in writes : WriteDone(w)
    \/ \E w \in writes : WriteFail(w)

SpecEngine == InitEngine /\ [][NextEngine]_vars

\* =================================================================
\* Properties
\* =================================================================
\* ------------------------------------------------------ board controller
\* board.controller.ts; a request is handled to its response in one step
wsVars == <<sockState, sockRooms, sockRole, clientConnection, tasks,
            boardConnections, boardDocs, yDocs, yDocState, writes,
            released, writeFailed, out, logged, cursor>>

\* prisma.boardMember.create (lines 639-645)
AddMember(rows, b, u, role) ==
    [rows EXCEPT ![b].members = MapSet(@, u, role)]

\* prisma.boardInvitation.update({ data: { status } })
SetStatus(inv, token, status) == [inv EXCEPT ![token].status = status]

\* lines 679-776: the invitations that validateInvitation answers with
\* success
Validates(token) ==
    /\ token # NoToken
    /\ token \in DOMAIN invitations
    /\ ~invitations[token].pastExpiry
    /\ invitations[token].status # "accepted"
    /\ invitations[token].status # "expired"

\* lines 538-674; ok is FALSE when the invitation lookup throws
acceptInvitation(token, caller, ok) ==
    /\ UNCHANGED wsVars
    /\ IF ~ok
       THEN /\ response' = Response("acceptInvitation", caller, token, 500, "")
            /\ UNCHANGED <<boardRows, invitations>>
       ELSE IF token = NoToken
       THEN /\ response' = Response("acceptInvitation", caller, token, 400, "")
            /\ UNCHANGED <<boardRows, invitations>>
       ELSE IF token \notin DOMAIN invitations
       THEN /\ response' = Response("acceptInvitation", caller, token, 404, "")
            /\ UNCHANGED <<boardRows, invitations>>
       ELSE IF invitations[token].pastExpiry
       THEN /\ invitations' = SetStatus(invitations, token, "expired")
            /\ response' = Response("acceptInvitation", caller, token, 400, "")
            /\ UNCHANGED boardRows
       ELSE IF caller = NoUser
       THEN /\ response' = Response("acceptInvitation", caller, token, 401, "")
            /\ UNCHANGED <<boardRows, invitations>>
       ELSE LET b == invitations[token].boardId
            IN /\ boardRows' =
                     IF caller \in DOMAIN boardRows[b].members THEN boardRows
                     ELSE AddMember(boardRows, b, caller,
                                    invitations[token].role)
               /\ invitations' = SetStatus(invitations, token, "accepted")
               /\ response' = Response("acceptInvitation", caller, token, 200, b)

\* lines 679-776; a public endpoint, the request carries no user
validateInvitation(token, ok) ==
    /\ UNCHANGED wsVars
    /\ UNCHANGED boardRows
    /\ IF ~ok
       THEN /\ response' = Response("validateInvitation", NoUser, token, 500, "")
            /\ UNCHANGED invitations
       ELSE IF token = NoToken
       THEN /\ response' = Response("validateInvitation", NoUser, token, 400, "")
            /\ UNCHANGED invitations
       ELSE IF token \notin DOMAIN invitations
       THEN /\ response' = Response("validateInvitation", NoUser, token, 404, "")
            /\ UNCHANGED invitations
       ELSE IF invitations[token].pastExpiry
       THEN /\ invitations' = SetStatus(invitations, token, "expired")
            /\ response' = Response("validateInvitation", NoUser, token, 400, "")
       ELSE /\ response' =
                  IF Validates(token)
                  THEN Response("validateInvitation", NoUser, token, 200,
                                invitations[token].boardId)
                  ELSE Response("validateInvitation", NoUser, token, 400, "")
            /\ UNCHANGED invitations

\* line 580, line 737: the clock passes the invitation's expiresAt
ExpiryPasses(token) ==
    /\ UNCHANGED wsVars
    /\ token \in DOMAIN invitations
    /\ ~invitations[token].pastExpiry
    /\ invitations' = [invitations EXCEPT ![token].pastExpiry = TRUE]
    /\ UNCHANGED <<boardRows, response>>

\* lines 183-186: hasAccess of getBoard
GetBoardHasAccess(id, caller) ==
    \/ boardRows[id].isPublic
    \/ boardRows[id].ownerId = caller
    \/ caller \in DOMAIN boardRows[id].members

\* lines 143-201; ok is FALSE when prisma.board.findUnique throws
getBoard(id, caller, ok) ==
    /\ UNCHANGED wsVars
    /\ UNCHANGED <<boardRows, invitations>>
    /\ response' =
          IF ~ok THEN Response("getBoard", caller, id, 500, "")
          ELSE IF id \notin DOMAIN boardRows
          THEN Response("getBoard", caller, id, 404, "")
          ELSE IF ~GetBoardHasAccess(id, caller) /\ caller # NoUser
          THEN Response("getBoard", caller, id, 403, "")
          ELSE Response("getBoard", caller, id, 200, id)

NextBoards ==
    \/ \E token \in Tokens, caller \in Callers, ok \in BOOLEAN :
          acceptInvitation(token, caller, ok)
    \/ \E token \in Tokens, ok \in BOOLEAN : validateInvitation(token, ok)
    \/ \E token \in Tokens : ExpiryPasses(token)
    \/ \E id \in BoardParams, caller \in Callers, ok \in BOOLEAN :
          getBoard(id, caller, ok)

SpecBoards == Init /\ [][NextBoards]_vars

\* ------------------------------------------------------------ properties
Members(b) == IF b \in DOMAIN boardConnections
              THEN SeqToSet(boardConnections[b]) ELSE {}

SnapshotContent(b) == IF yDocState[b].isNull THEN {} ELSE yDocState[b].bytes

\* C1: concurrent first joins to one board construct and store exactly one
\* document handle: a handle stored in boardDocs is never replaced by
\* another join.
C1_HandleNeverOverwritten ==
    [][\A b \in DOMAIN boardDocs :
          b \in DOMAIN boardDocs' => boardDocs'[b] = boardDocs[b]]_vars

\* C2: in every room no two connections carry the same non-null userId, and
\* no two connections without a resolved user id carry the same non-null
\* email.
C2_OneConnectionPerIdentity ==
    \A b \in DOMAIN boardConnections :
      \A i, j \in DOMAIN boardConnections[b] :
        i # j =>
          LET x == tasks[boardConnections[b][i]]
              y == tasks[boardConnections[b][j]]
          IN /\ ~(ConnUserId(x) # NoUser /\ ConnUserId(x) = ConnUserId(y))
             /\ ~(/\ x.dbUserId = NoUser /\ y.dbUserId = NoUser
                  /\ x.userEmail # NoEmail /\ x.userEmail = y.userEmail)

\* the join of task t is admitted to its room in this step
Admitted(t) ==
    /\ t \in DOMAIN tasks
    /\ tasks[t].pc \in {"board", "load"}
    /\ tasks'[t].pc = "done"
    /\ tasks'[t].boardId \in DOMAIN boardConnections'
    /\ t \in SeqToSet(boardConnections'[tasks'[t].boardId])

\* message number i of the step's output is of this type, to this socket
\* and attributed to this socket id
Notice(o, i, type, to, sid) ==
    /\ o[i].type = type
    /\ o[i].to = to
    /\ o[i].body.socketId = sid

\* C3: when connection A is in a room and B of the same identity joins, then
\* after B's join A is not in the connection set, A is not in the roster
\* sent to B, and every remaining member receives user-left for A before
\* user-joined for B.
C3_EvictionNotifiedBeforeJoin ==
    [][\A t \in RoomTaskIds :
         Admitted(t) =>
           \A a \in Members(tasks[t].boardId) :
             Evicts(tasks[t], a) =>
               /\ a \notin SeqToSet(boardConnections'[tasks[t].boardId])
               /\ \A i \in DOMAIN out' :
                    (out'[i].type = "active-users"
                       /\ tasks[a].socket # tasks[t].socket) =>
                      \A k \in DOMAIN out'[i].body :
                         out'[i].body[k].socketId # tasks[a].socket
               /\ \A m \in SeqToSet(boardConnections'[tasks[t].boardId]) \ {t} :
                    \E i, j \in DOMAIN out' :
                       /\ i < j
                       /\ Notice(out', i, "user-left", tasks[m].socket,
                                 tasks[a].socket)
                       /\ Notice(out', j, "user-joined", tasks[m].socket,
                                 tasks[t].socket)]_vars

\* the socket's connection has been evicted from its room by a newer join
EvictedSocket(s) ==
    /\ sockState[s] = "open"
    /\ clientConnection[s] # NoConn
    /\ clientConnection[s] \notin Members(tasks[clientConnection[s]].boardId)

RoomBroadcasts ==
    {"board-update", "cursor-update", "awareness-update", "user-joined",
     "active-users"}

\* C4: a connection evicted by a newer same-identity join receives no
\* further room broadcast for that board.
C4_EvictedReceivesNothing ==
    \A i \in DOMAIN out :
       (/\ EvictedSocket(out[i].to)
        /\ out[i].room = tasks[clientConnection[out[i].to]].boardId)
          => out[i].type \notin RoomBroadcasts

\* C5: every connection stored in a room's set belongs to a socket that is
\* still connected and whose current joined board is that room.
C5_MembersAreLive ==
    \A b \in DOMAIN boardConnections :
      \A c \in Members(b) :
         /\ sockState[tasks[c].socket] = "open"
         /\ clientConnection[tasks[c].socket] # NoConn
         /\ tasks[clientConnection[tasks[c].socket]].boardId = b

\* C6: every board with an entry in the room map has at least one
\* connection in its set.
C6_NoEmptyRoom ==
    \A b \in DOMAIN boardConnections : boardConnections[b] # <<>>

\* a disconnect has just left a room that stays open
C6_Witness ==
    /\ out # <<>>
    /\ \A i \in DOMAIN out : out[i].type \in {"user-left", "active-users"}
    /\ \E i \in DOMAIN out :
          /\ out[i].type = "active-users"
          /\ out[i].room \in DOMAIN boardConnections
          /\ out[i].body # <<>>
    /\ \E s \in Sockets : sockState[s] = "closed"

\* C7: the step that removes the last connection of a board removes the
\* room entry and the document handle together, and the next join to the
\* board stores a handle built by that join whose content is the persisted
\* snapshot read by it (empty when there is none or the read fails).
C7_TeardownAndReload ==
    [][\A b \in BoardIds :
          /\ (b \in DOMAIN boardConnections /\ b \notin DOMAIN boardConnections')
                => b \notin DOMAIN boardDocs'
          /\ (b \notin DOMAIN boardDocs /\ b \in DOMAIN boardDocs')
                => /\ tasks[boardDocs'[b]].pc = "load"
                   /\ yDocs'[boardDocs'[b]] \in {SnapshotContent(b), {}}]_vars

\* a join has rebuilt the document of a board whose previous handle held
\* content that was never persisted
C7_Witness ==
    \E b \in (DOMAIN released) \cap (DOMAIN boardDocs) :
       /\ ~(released[b] \subseteq yDocs[boardDocs[b]])
       /\ yDocs[boardDocs[b]] = SnapshotContent(b)
       /\ \E i \in DOMAIN out : out[i].type = "sync-board"

\* C8: for every applied board-update, every connection currently in the
\* room, the sender included, receives exactly one board-update with the
\* same bytes.
C8_UpdateReachesEveryMember ==
    \A i \in DOMAIN out :
       out[i].type = "board-update" =>
         \A c \in Members(out[i].room) :
            Cardinality({j \in DOMAIN out :
                           /\ out[j].type = "board-update"
                           /\ out[j].to = tasks[c].socket
                           /\ out[j].body = out[i].body}) = 1

\* C9: every persistence write scheduled by a document mutation carries the
\* full encoded state of the room's document at that moment.
C9_WriteCarriesFullState ==
    [][\A w \in writes' \ writes :
          /\ w.boardId \in DOMAIN boardDocs'
          /\ w.yDocState = yDocs'[boardDocs'[w.boardId]]]_vars

\* C10: when no write has failed or is still pending, the sync-board state
\* sent to the join that re-creates a closed room contains everything the
\* previous room's document held.
C10_RejoinSeesAllUpdates ==
    [][\A b \in DOMAIN released :
          (/\ b \notin DOMAIN boardConnections
           /\ b \in DOMAIN boardConnections'
           /\ ~writeFailed
           /\ \A w \in writes : w.boardId # b
           /\ yDocs'[boardDocs'[b]] = SnapshotContent(b))
             => \A i \in DOMAIN out' :
                   out'[i].type = "sync-board" =>
                      released[b] \subseteq out'[i].body]_vars

\* the step is the catch block of lines 153-155
WriteFailed == logged' = SaveError

\* C11: when a persistence write fails, the in-memory documents keep their
\* content, no message is delivered to any client, the failed write is gone
\* and no other write is started; a write is started only by a step that
\* adds content to a document.
C11_FailedWriteIsDropped ==
    [][/\ WriteFailed =>
             /\ yDocs' = yDocs
             /\ boardDocs' = boardDocs
             /\ out' = <<>>
             /\ yDocState' = yDocState
             /\ writes' \subseteq writes
             /\ Cardinality(writes') = Cardinality(writes) - 1
       /\ ~(writes' \subseteq writes) =>
             \E h \in (DOMAIN yDocs) \cap (DOMAIN yDocs') :
                 yDocs'[h] # yDocs[h]]_vars

\* a write has failed, nothing is pending, and a stored document holds an
\* update that the column does not
C11_Witness ==
    /\ writeFailed
    /\ writes = {}
    /\ out = <<>>
    /\ \E b \in DOMAIN boardDocs :
          \E u \in Updates : /\ u \in yDocs[boardDocs[b]]
                              /\ u \notin SnapshotContent(b)

\* C12: a board-update broadcast is delivered in the step that merges the
\* update, while the write started by that merge is still pending, whatever
\* other writes are pending or have failed; and every connected socket's
\* messages can be handled in every state, pending writes or not.
C12_WriteNeverDelaysEditing ==
    [][/\ \A i \in DOMAIN out' :
            out'[i].type = "board-update" =>
              LET b == out'[i].room
                  U == out'[i].body
              IN /\ b \in DOMAIN boardDocs /\ b \in DOMAIN boardDocs'
                 /\ U \subseteq yDocs'[boardDocs'[b]]
                 /\ U \ yDocs[boardDocs[b]] # {} =>
                        /\ HookWrite(b, U \ yDocs[boardDocs[b]]) \in writes'
                        /\ writes \subseteq writes'
       /\ \A s \in Sockets :
            sockState[s] = "open" =>
              /\ \A U \in UpdateInputs : ENABLED BoardUpdate(s, U)
              /\ \A U \in UpdateInputs : ENABLED SyncState(s, U)
              /\ ENABLED AwarenessUpdate(s)
              /\ ENABLED Disconnect(s)]_vars

\* a board-update has been delivered while the write it started and a write
\* of another board are pending
C12_Witness ==
    \E i \in DOMAIN out :
       /\ out[i].type = "board-update"
       /\ HookWrite(out[i].room, out[i].body) \in writes
       /\ \E w \in writes : w.boardId # out[i].room

\* the policy of the claim: the role granted to a caller whose resolved
\* database user is caller (NoUser when absent or not resolvable), "denied"
\* when access is refused
PolicyDecision(b, caller) ==
    IF b \notin DOMAIN boardRows THEN "denied"
    ELSE IF caller # NoUser /\ boardRows[b].ownerId = caller THEN "owner"
    ELSE IF caller # NoUser /\ caller \in DOMAIN boardRows[b].members
         THEN boardRows[b].members[caller]
    ELSE IF boardRows[b].isPublic THEN "viewer"
    ELSE "denied"

\* C13: for every board table and caller identity, a join whose lookups
\* return is denied exactly when the policy denies, and otherwise proceeds
\* with exactly the policy's role: board not found -> denied; owner ->
\* owner; listed member -> stored role; else public -> viewer; else denied.
C13_AccessPolicy ==
    [][\A t \in AccessTaskIds :
         (t \in DOMAIN tasks /\ tasks[t].pc = "board" /\ tasks'[t].pc # "board") =>
           LET tk == tasks[t]
               want == PolicyDecision(tk.boardId,
                          IF tk.userId = NoUser THEN NoUser
                          ELSE DbUserOf(tk.userId))
           IN IF want = "denied"
              THEN /\ tasks'[t] = DeadTask
                   /\ boardConnections' = boardConnections
                   /\ sockRooms' = sockRooms
                   /\ \A i \in DOMAIN out' : out'[i].type = "error"
              ELSE /\ tasks'[t].pc \in {"load", "done"}
                   /\ tasks'[t] # DeadTask
                   /\ tasks'[t].userRole = want
                   /\ tasks'[t].pc = "done" =>
                          /\ t \in Members(tk.boardId)'
                          /\ \A i \in DOMAIN out' :
                                out'[i].type = "user-role" => out'[i].body = want
                   /\ sockState[tk.socket] = "open" =>
                          tk.boardId \in sockRooms'[tk.socket]]_vars

\* a member who is not the owner has been admitted to a private board with
\* the stored role and told so
C13_Witness ==
    \E t \in DOMAIN tasks :
       /\ tasks[t].pc = "done"
       /\ tasks[t].userRole = "editor"
       /\ tasks[t].boardId \in DOMAIN boardRows
       /\ ~boardRows[tasks[t].boardId].isPublic
       /\ boardRows[tasks[t].boardId].ownerId # tasks[t].dbUserId
       /\ \E i \in DOMAIN out :
             out[i].type = "user-role" /\ out[i].body = "editor"

\* C14: when the user lookup or the board lookup of the access check
\* throws, the join ends in that step: the joiner is sent the access-denied
\* error and nothing else is sent, the joiner enters no Socket.IO room and
\* no connection set, and the handler's outer catch ('Failed to join
\* board') is not reached.
C14_LookupFailureDenies ==
    [][\A t \in DOMAIN tasks :
         (/\ logged' \in {VerifyError, CheckError}
          /\ tasks[t].pc \in {"user", "board"}
          /\ tasks'[t] # tasks[t]) =>
            /\ tasks'[t] = DeadTask
            /\ out' = Emit(tasks[t].socket,
                           Msg("error", "", "Access denied to this board"))
            /\ sockRooms' = sockRooms
            /\ boardConnections' = boardConnections
            /\ clientConnection' = clientConnection
            /\ boardDocs' = boardDocs
            /\ sockRole' = sockRole]_vars

\* a lookup of the access check has thrown and the joiner has been told
\* that access is denied; no socket is in a room and no room exists
C14_Witness ==
    /\ logged = VerifyError
    /\ boardConnections = <<>>
    /\ \A s \in Sockets : sockRooms[s] = {}
    /\ \E i \in DOMAIN out :
          /\ out[i].type = "error"
          /\ out[i].body = "Access denied to this board"

\* the step refuses a join: the payload has no boardId (lines 48-51, the
\* task is finished on arrival) or access is denied (lines 114-117)
RefusedNoBoard ==
    /\ Len(tasks') = Len(tasks) + 1
    /\ tasks'[Len(tasks')] = DeadTask

RefusedDenied(t) ==
    /\ tasks[t].pc \in {"user", "board"}
    /\ tasks'[t] = DeadTask

\* C15: a refused join (denied, or without boardId) sends one error to the
\* requester (delivered when its socket is open) and nothing to anyone
\* else, and leaves the room map, the document map and their documents,
\* every socket's rooms and every connection's session state unchanged;
\* join-board stays enabled for every open socket.
C15_RefusedJoinChangesNothing ==
    [][/\ (RefusedNoBoard \/ \E t \in DOMAIN tasks : RefusedDenied(t)) =>
            /\ boardConnections' = boardConnections
            /\ boardDocs' = boardDocs
            /\ yDocs' = yDocs
            /\ sockRooms' = sockRooms
            /\ clientConnection' = clientConnection
            /\ sockRole' = sockRole
            /\ sockState' = sockState
            /\ writes' = writes
            /\ Len(out') <= 1
            /\ \A i \in DOMAIN out' : out'[i].type = "error"
       /\ RefusedNoBoard => Len(out') = 1
       /\ \A t \in DOMAIN tasks :
            RefusedDenied(t) =>
              /\ \A i \in DOMAIN out' : out'[i].to = tasks[t].socket
              /\ sockState[tasks[t].socket] = "open" => Len(out') = 1
       /\ \A s \in Sockets :
            (sockState[s] = "open" /\ Len(tasks) < MaxJoins) =>
               ENABLED BoundedJoin(MaxJoins, s, "b1", <<NoUser, NoEmail>>)]_vars

\* a socket that has joined nothing has been denied while another board's
\* room is open
C15_Witness ==
    /\ Len(out) = 1
    /\ out[1].type = "error"
    /\ out[1].body = "Access denied to this board"
    /\ clientConnection[out[1].to] = NoConn
    /\ sockRooms[out[1].to] = {}
    /\ boardConnections # <<>>

\* the join replies among the messages of o delivered to socket s, in order
DeliveredTo(o, s) ==
    SelectSeq(o, LAMBDA m : /\ m.to = s
                            /\ m.type \in {"sync-board", "active-users",
                                            "user-role", "user-joined"})

\* the identity and socket columns of a roster, and of a connection set
RosterIds(body) ==
    [i \in DOMAIN body |->
       <<body[i].userId, body[i].userEmail, body[i].socketId>>]
ConnIds(conns, tk) ==
    [i \in DOMAIN conns |->
       <<ConnUserId(tk[conns[i]]), tk[conns[i]].userEmail, tk[conns[i]].socket>>]

\* C16: on a successful join the joiner receives sync-board with the full
\* document state, then active-users with a roster equal to the room's
\* connection set (the joiner included), then user-role with its role, one
\* of each; every other member of the room receives exactly one user-joined
\* for the joiner and the joiner receives none.
C16_JoinReplies ==
    [][\A t \in TaskIds :
         Admitted(t) =>
           LET s == tasks[t].socket
               b == tasks[t].boardId
               mine == DeliveredTo(out', s)
               conns == boardConnections'[b]
           IN /\ Len(mine) = 3
              /\ mine[1].type = "sync-board"
              /\ mine[1].body = yDocs'[boardDocs'[b]]
              /\ mine[2].type = "active-users"
              /\ RosterIds(mine[2].body) = ConnIds(conns, tasks')
              /\ \E k \in DOMAIN conns : conns[k] = t
              /\ mine[3].type = "user-role"
              /\ mine[3].body = tasks'[t].userRole
              /\ \A m \in SeqToSet(conns) \ {t} :
                    Cardinality({i \in DOMAIN out' :
                                   Notice(out', i, "user-joined",
                                          tasks'[m].socket, s)}) = 1]_vars

\* the connection sequence of room b in a room map, empty without a room
RoomSeq(bc, b) == IF b \in DOMAIN bc THEN bc[b] ELSE <<>>

\* C17: after every change of a room's connection set (join, eviction,
\* disconnect) every connection remaining in the set receives an
\* active-users message whose roster equals the set after the change.
C17_RosterToAllOnChange ==
    [][\A b \in BoardIds :
         RoomSeq(boardConnections', b) # RoomSeq(boardConnections, b) =>
           \A m \in SeqToSet(RoomSeq(boardConnections', b)) :
              \E i \in DOMAIN out' :
                 /\ out'[i].type = "active-users"
                 /\ out'[i].to = tasks'[m].socket
                 /\ RosterIds(out'[i].body) =
                       ConnIds(RoomSeq(boardConnections', b), tasks')]_vars

\* socket s, whose connection is in its room's set, disconnects in this
\* step and the room keeps its entry
LeavesOpenRoom(s) ==
    /\ sockState[s] = "open"
    /\ sockState'[s] = "closed"
    /\ clientConnection[s] # NoConn
    /\ clientConnection[s] \in Members(tasks[clientConnection[s]].boardId)
    /\ tasks[clientConnection[s]].boardId \in DOMAIN boardConnections'

\* C18: when a joined connection disconnects and its room stays non-empty,
\* the connection leaves the set and every remaining member receives a
\* user-left notice for the leaver followed by an active-users roster that
\* equals the remaining set and does not contain the leaver.
C18_DisconnectNotifiesRemainder ==
    [][\A s \in Sockets :
         LeavesOpenRoom(s) =>
           LET c == clientConnection[s]
               b == tasks[c].boardId
               rest == boardConnections'[b]
           IN /\ c \notin SeqToSet(rest)
              /\ \A m \in SeqToSet(rest) :
                    \E i, j \in DOMAIN out' :
                       /\ i < j
                       /\ Notice(out', i, "user-left", tasks[m].socket, s)
                       /\ out'[j].type = "active-users"
                       /\ out'[j].to = tasks[m].socket
                       /\ RosterIds(out'[j].body) = ConnIds(rest, tasks)
                       /\ \A k \in DOMAIN out'[j].body :
                             out'[j].body[k].socketId # s]_vars

\* the board an active-users message is about: its room, or the board of
\* the joiner it was sent to with socket.emit
RosterBoard(m) ==
    IF m.room # "" THEN m.room ELSE tasks[clientConnection[m.to]].boardId

\* C19: every roster delivered in an active-users message equals the
\* room's connection set as the sending handler leaves it (empty when the
\* room is gone): no roster shows a set after an eviction but before the
\* insertion, or a removal half applied.
C19_RosterIsWholeSet ==
    \A i \in DOMAIN out :
       out[i].type = "active-users" =>
          RosterIds(out[i].body) =
             ConnIds(RoomSeq(boardConnections, RosterBoard(out[i])), tasks)

\* a join that evicted a connection has delivered its roster
C19_Witness ==
    \E i, j, k \in DOMAIN out :
       /\ i < j /\ j < k
       /\ out[i].type = "user-left"
       /\ out[j].type = "sync-board"
       /\ out[k].type = "active-users"
       /\ out[k].body # <<>>
       /\ \A n \in DOMAIN out[k].body :
             out[k].body[n].socketId # out[i].body.socketId

\* C20: no room's connection set holds two connections with the same
\* socket, also after one socket has sent join-board for the board again.
C20_OneConnectionPerSocket ==
    \A b \in DOMAIN boardConnections :
      \A i, j \in DOMAIN boardConnections[b] :
         i # j => tasks[boardConnections[b][i]].socket #
                    tasks[boardConnections[b][j]].socket

\* C21: the role listed for a connection in every active-users roster is
\* the role the access check resolved for the join that created that
\* connection, whatever joins, evictions and disconnects happened since.
C21_RosterRoleIsJoinRole ==
    \A i \in DOMAIN out :
       out[i].type = "active-users" =>
          LET conns == RoomSeq(boardConnections, RosterBoard(out[i]))
          IN \A k \in (DOMAIN out[i].body) \cap (DOMAIN conns) :
                out[i].body[k].role = tasks[conns[k]].userRole

\* a coordinate that is a finite number
FiniteNumber(v) == v = "7"

\* C22: a cursor-move whose x or y is not a finite number (missing, NaN,
\* infinite, null, non-numeric) is dropped: no cursor-update carrying such a
\* coordinate is delivered to anyone and no connection stores one.
C22_InvalidCursorDropped ==
    /\ \A c \in DOMAIN cursor :
          FiniteNumber(cursor[c][1]) /\ FiniteNumber(cursor[c][2])
    /\ \A i \in DOMAIN out :
          out[i].type = "cursor-update" =>
             /\ FiniteNumber(out[i].body.cursor[1])
             /\ FiniteNumber(out[i].body.cursor[2])

\* socket s is open and its connection is in its room's set
Joined(s) ==
    /\ sockState[s] = "open"
    /\ clientConnection[s] # NoConn
    /\ clientConnection[s] \in Members(tasks[clientConnection[s]].boardId)

\* the step delivers one message of this type to the socket of every other
\* member of the room of s, and nothing to s
RelayedToOthers(s, type) ==
    LET c == clientConnection[s]
    IN /\ \A m \in Members(tasks[c].boardId) \ {c} :
             Cardinality({i \in DOMAIN out' :
                            /\ out'[i].type = type
                            /\ out'[i].to = tasks[m].socket}) = 1
       /\ \A i \in DOMAIN out' : out'[i].to # s

\* the step changes no document, snapshot, room, connection or session
PresenceOnly ==
    UNCHANGED <<sockState, sockRooms, sockRole, clientConnection, tasks,
                boardConnections, boardDocs, yDocs, yDocState, writes,
                released, writeFailed, boardRows>>

\* C23: for every joined connection, handling its awareness-update or its
\* valid cursor-move delivers the relay to every other member of its room
\* and never to the sender; awareness-update changes nothing else, and
\* cursor-move changes only the sender's stored cursor.
C23_PresenceRelay ==
    \A s \in Sockets :
       Joined(s) =>
          /\ ENABLED (/\ AwarenessUpdate(s)
                      /\ RelayedToOthers(s, "awareness-update")
                      /\ PresenceOnly
                      /\ cursor' = cursor)
          /\ ENABLED (/\ CursorMove(s, "7", "7")
                      /\ RelayedToOthers(s, "cursor-update")
                      /\ PresenceOnly
                      /\ cursor' = MapSet(cursor, clientConnection[s],
                                          <<"7", "7">>))

\* the step is a handler left by an exception of Y.applyUpdate
EngineRejected == logged' = UncaughtError

\* C24: when the document engine rejects an update sent as board-update,
\* the room's document is unchanged, nothing is broadcast, no write is
\* scheduled, and the socket, its connection and its room are as before,
\* ready for later messages.
C24_RejectedUpdateIsDropped ==
    [][EngineRejected =>
         /\ boardDocs' = boardDocs
         /\ yDocs' = yDocs
         /\ out' = <<>>
         /\ writes' \subseteq writes
         /\ sockState' = sockState
         /\ clientConnection' = clientConnection
         /\ boardConnections' = boardConnections]_vars

\* C25: a join that found no in-memory document and has finished its
\* snapshot load stores a handle that holds the persisted snapshot when one
\* exists, is well-formed and was read, and that is empty when the snapshot
\* is absent or malformed or the read failed; in every case the join is
\* admitted and the sync-board sent to the joiner carries that state.
C25_LoadFallsBackToEmpty ==
    [][\A t \in EngineTaskIds :
         (/\ t \in DOMAIN tasks /\ tasks[t].pc = "load"
          /\ tasks'[t].pc = "done" /\ tasks'[t] # DeadTask) =>
           LET b == tasks[t].boardId
               j == tasks[t].socket
               col == yDocState[b]
           IN /\ boardDocs'[b] = t
              /\ yDocs'[t] = IF col.isNull \/ logged' = LoadError THEN {}
                             ELSE col.bytes
              /\ (~col.isNull /\ Rejects(col.bytes)) => yDocs'[t] = {}
              /\ t \in Members(b)'
              /\ clientConnection'[j] = t
              /\ \A i \in DOMAIN out' :
                    out'[i].type = "sync-board" =>
                       out'[i].to = j /\ out'[i].body = yDocs'[t]
              /\ sockState[j] = "open" =>
                    \E i \in DOMAIN out' : out'[i].type = "sync-board"]_vars

\* a first join has met a malformed snapshot and received the empty state
C25_Witness ==
    /\ logged = LoadError
    /\ ~yDocState["b1"].isNull
    /\ Rejects(yDocState["b1"].bytes)
    /\ "b1" \in DOMAIN boardConnections
    /\ \E i \in DOMAIN out :
          /\ out[i].type = "sync-board"
          /\ out[i].body = {}
          /\ yDocs[boardDocs["b1"]] = {}

\* what the server holds for board b: its connection set, the roster read
\* from it, its document handle with the handle's content, and the
\* persisted snapshot
BoardState(b) ==
    <<RoomSeq(boardConnections, b),
      Roster(RoomSeq(boardConnections, b), sockRole),
      IF b \in DOMAIN boardDocs THEN <<boardDocs[b], yDocs[boardDocs[b]]>>
      ELSE <<>>,
      yDocState[b]>>

Touched(b) ==
    \/ BoardState(b)' # BoardState(b)
    \/ \E i \in DOMAIN out' : out'[i].room = b

\* C26: handling a message for board A leaves the connection set, the
\* roster contents, the document handle and the persisted snapshot of every
\* other board B unchanged and sends nothing to B's room: no step of the
\* server changes or addresses two boards.
C26_OtherBoardsUntouched ==
    [][\A a \in BoardIds : \A b \in BoardIds \ {a} :
          ~(Touched(a) /\ Touched(b))]_vars

\* the updates broadcast as board-update in room b by the step
Broadcast(b) ==
    UNION {out'[i].body : i \in {k \in DOMAIN out' :
                                 out'[k].type = "board-update" /\ out'[k].room = b}}

RoomStaysOpen(b) ==
    /\ b \in DOMAIN boardConnections
    /\ b \in DOMAIN boardConnections'
    /\ b \in DOMAIN boardDocs

\* C27: the in-memory document of a room is the initially loaded state
\* merged with every update handled as board-update, whatever the order of
\* handling: while the room is open each handled board-update adds exactly
\* its update to the room's document and no other step takes anything out
\* of it.
C27_UpdatesMergeInAnyOrder ==
    [][\A b \in BoardIds :
          RoomStaysOpen(b) =>
             /\ b \in DOMAIN boardDocs'
             /\ LET old == yDocs[boardDocs[b]]
                    new == yDocs'[boardDocs'[b]]
                IN /\ old \subseteq new
                   /\ Broadcast(b) # {} => new = old \cup Broadcast(b)]_vars

C29_LaterJoinerSeesAppliedUpdates ==
    [][\A i \in DOMAIN out' :
          out'[i].type = "sync-board" =>
             LET b == tasks'[clientConnection'[out'[i].to]].boardId
             IN (b \in DOMAIN boardConnections /\ b \in DOMAIN boardDocs) =>
                   (yDocs[boardDocs[b]] \cap Updates) \subseteq out'[i].body]_vars

Unjoined(s) == sockState[s] = "open" /\ clientConnection[s] = NoConn

NoEffect ==
    /\ out' = <<>>
    /\ UNCHANGED <<boardConnections, boardDocs, yDocs, yDocState, writes,
                   released, clientConnection, tasks, cursor, sockRole>>

\* C31: a sync-state, board-update, cursor-move, awareness-update or
\* disconnect event from a socket that has not joined a board changes no
\* room, document, connection record or persisted snapshot and sends no
\* message, whatever its payload.
C31_UnjoinedEventsHaveNoEffect ==
    \A s \in Sockets :
       Unjoined(s) =>
          /\ \A U \in EngineInputs :
                /\ ENABLED (SyncState(s, U) /\ NoEffect)
                /\ ENABLED (BoardUpdate(s, U) /\ NoEffect)
          /\ \A p \in CursorInputs :
                ENABLED (CursorMove(s, p[1], p[2]) /\ NoEffect)
          /\ ENABLED (AwarenessUpdate(s) /\ NoEffect)
          /\ ENABLED (Disconnect(s) /\ NoEffect)

\* an unjoined socket whose join is still awaiting the snapshot is in the
\* transport room of a board that has an admitted member, and the last
\* step sent nothing
C31_Witness ==
    \E s \in Sockets :
       /\ Unjoined(s)
       /\ out = <<>>
       /\ \E b \in sockRooms[s] :
             /\ b \in DOMAIN boardConnections
             /\ RoomSockets(sockRooms, b) \ {s} # {}

\* C32: between handler steps the boards that have a document handle are
\* exactly the boards that have a room entry.
C32_HandleIffRoom == DOMAIN boardDocs = DOMAIN boardConnections

\* the room of b1 has been torn down, handle included, while another join
\* to b1 is still awaiting its snapshot
C32_Witness ==
    /\ "b1" \in DOMAIN released
    /\ "b1" \notin DOMAIN boardConnections
    /\ "b1" \notin DOMAIN boardDocs
    /\ \E t \in DOMAIN tasks : tasks[t].pc = "load" /\ tasks[t].boardId = "b1"

\* C33: every change made to the document of an open room, a change merged
\* through sync-state included, is delivered as board-update to every
\* member of the room that is still connected.
C33_DocumentChangeIsBroadcast ==
    [][\A b \in BoardIds :
          (RoomStaysOpen(b) /\ b \in DOMAIN boardDocs') =>
             LET added == yDocs'[boardDocs'[b]] \ yDocs[boardDocs[b]]
             IN added # {} =>
                   \A c \in Members(b)' :
                      sockState'[tasks'[c].socket] = "open" =>
                         \E i \in DOMAIN out' :
                            /\ out'[i].type = "board-update"
                            /\ out'[i].to = tasks'[c].socket
                            /\ added \subseteq out'[i].body]_vars

\* the effect of merging U into the document of board b, stated without
\* the sender and its role: the document gains U and the hook schedules a
\* write of what was new
Merged(b, U) ==
    LET h == boardDocs[b]
        new == U \ yDocs[h]
    IN /\ yDocs' = [yDocs EXCEPT ![h] = @ \cup U]
       /\ writes' = IF new = {} THEN writes
                    ELSE writes \cup {[boardId |-> b, yDocState |-> new]}
       /\ UNCHANGED <<boardDocs, boardConnections, yDocState>>

LateDisconnect(s) ==
    /\ sockState[s] = "open"
    /\ sockState'[s] = "closed"
    /\ clientConnection[s] # NoConn
    /\ clientConnection[s] \notin Members(tasks[clientConnection[s]].boardId)

\* C35: the members of a room receive at most one user-left notice per
\* admitted connection: a user-left attributed to a socket id is sent only
\* by the step that takes a connection of that socket out of the room's
\* set, and the later disconnect of an evicted connection's socket sends
\* nothing, removes no connection and tears down no room.
C35_OneUserLeftPerConnection ==
    [][/\ \A i \in DOMAIN out' :
             out'[i].type = "user-left" =>
                \E c \in SeqToSet(RoomSeq(boardConnections, out'[i].room))
                         \ SeqToSet(RoomSeq(boardConnections', out'[i].room)) :
                   tasks[c].socket = out'[i].body.socketId
       /\ \A s \in Sockets :
             LateDisconnect(s) =>
                /\ out' = <<>>
                /\ boardConnections' = boardConnections
                /\ boardDocs' = boardDocs]_vars

\* the join-board handler invocation t has not run to its end
Pending(t) == t \in DOMAIN tasks /\ tasks[t].pc # "done"

\* the messages of the given type that the step delivers to socket s
Received(s, type) ==
    {i \in DOMAIN out' : out'[i].to = s /\ out'[i].type = type}

OneErrorOrSuccess(s) ==
    \/ /\ Cardinality(Received(s, "error")) = 1
       /\ Received(s, "sync-board") = {}
       /\ Received(s, "active-users") = {}
       /\ Received(s, "user-role") = {}
    \/ /\ Received(s, "error") = {}
       /\ Cardinality(Received(s, "sync-board")) = 1
       /\ Cardinality(Received(s, "active-users")) = 1
       /\ Cardinality(Received(s, "user-role")) = 1

\* the step in which a join runs to its end replies to the requester, if
\* its socket is still connected, with one error or with the three
\* success messages; a join without a board id ends at once with one error
JoinEndsWithOneOutcome ==
    /\ \A t \in TaskIds :
          (Pending(t) /\ ~Pending(t)' /\ sockState'[tasks[t].socket] = "open") =>
             OneErrorOrSuccess(tasks[t].socket)
    /\ (Len(tasks') > Len(tasks) /\ tasks'[Len(tasks')] = DeadTask) =>
          /\ Len(out') = 1
          /\ out'[1].type = "error"

\* C36: every join-board request whose awaited lookups each return or fail
\* ends, and it ends with the requester receiving either exactly one error
\* message or the success messages sync-board, active-users and user-role,
\* never both and never neither.
C36_JoinEndsWithOneOutcome ==
    /\ [][JoinEndsWithOneOutcome]_vars
    /\ \A t \in TaskIds : Pending(t) ~> ~Pending(t)

\* a join has just been refused with its one error message while an
\* earlier join of the room was admitted
C36_Witness ==
    /\ Len(out) = 1
    /\ out[1].type = "error"
    /\ out[1].body = "Access denied to this board"
    /\ sockState[out[1].to] = "open"
    /\ boardConnections # <<>>

\* the step created a membership of user u on board b
MembershipCreated(b, u) ==
    /\ u \notin DOMAIN boardRows[b].members
    /\ u \in DOMAIN boardRows'[b].members

\* C37: acceptInvitation creates a board membership only for an invitation
\* that validateInvitation would accept at that moment (not past its
\* expiry, status neither accepted nor expired); after one user has
\* accepted a token a different user presenting it gains no membership.
C37_AcceptOnlyValidInvitation ==
    [][\A b \in BoardIds : \A u \in Callers :
          MembershipCreated(b, u) =>
             /\ response'.handler = "acceptInvitation"
             /\ response'.caller = u
             /\ Validates(response'.param)
             /\ invitations[response'.param].boardId = b]_vars

\* C38: getBoard answers with the board's data only when the board is
\* public or the caller is its owner or one of its members; every other
\* caller, authenticated or not, gets an error and no data.
C38_GetBoardOnlyWithAccess ==
    (response.handler = "getBoard" /\ (response.status = 200 \/ response.data # "")) =>
       /\ response.param \in DOMAIN boardRows
       /\ GetBoardHasAccess(response.param, response.caller)
====
